---- MODULE Spec2Model ----
(***************************************************************************)
(* A model of tools/mesh_convert.py: the converter convert_obj_to_mesh     *)
(* (a pure text-to-text function) and the command-line driver that         *)
(* classifies its arguments, resolves the output mode and converts the    *)
(* input files one after the other.                                        *)
(*                                                                         *)
(* A Python str is a sequence of one-character strings; a file system is  *)
(* a function from paths to a content or Absent.                           *)
(***************************************************************************)
EXTENDS Integers, Sequences, FiniteSets, TLC

VARIABLES
    \* ---- the converter, called on its own (specification SpecConv)
    doc,          \* the input as the lines it is made of (each a record of tokens and spacing)
    txt,          \* the argument of convert_obj_to_mesh: doc rendered to characters
    result,       \* what the call returned or raised
    cpc,          \* where the caller is: input / inserted / removed / swapped / returned / raised
    \* ---- the command-line driver (specification Spec)
    args,               \* sys.argv[1:]
    i,                  \* the cursor of the classification loop, then the index of the for loop
    output_flag_enabled,
    input_args,
    output_args,
    is_single,
    is_directory,
    data,               \* the converted text of the current pair
    fs,                 \* the file system: path -> content or Absent
    pc,                 \* parse / resolve / pair / write / done / raised
    err,                \* the exception that ended the run, or "none"
    fs0,                \* the file system when the run started
    reads,              \* the reads done so far: <<path, content>>
    writes              \* the writes done so far: <<branch, path, content>>

convVars == <<doc, txt, result, cpc>>
drvVars == <<args, i, output_flag_enabled, input_args, output_args, is_single,
             is_directory, data, fs, pc, err, fs0, reads, writes>>
vars == <<doc, txt, result, cpc, args, i, output_flag_enabled, input_args,
          output_args, is_single, is_directory, data, fs, pc, err, fs0, reads, writes>>

\* ------------------------------------------------------------------ bounds
MaxLines == 3
MaxArgs == 5

\* ------------------------------------------------------- Python's builtins
NL == "\n"
Whitespace == {" ", "\t"}
DigitChars == <<"0", "1", "2", "3", "4", "5", "6", "7", "8", "9">>
Digits == {DigitChars[d] : d \in 1..10}
DigitVal(c) == (CHOOSE d \in 1..10 : DigitChars[d] = c) - 1

RECURSIVE Concat(_)
\* "".join(parts)
Concat(parts) ==
    IF parts = <<>> THEN <<>> ELSE Head(parts) \o Concat(Tail(parts))

RECURSIVE Join(_, _)
\* sep.join(parts)
Join(parts, sep) ==
    IF parts = <<>> THEN <<>>
    ELSE IF Len(parts) = 1 THEN parts[1]
    ELSE parts[1] \o sep \o Join(Tail(parts), sep)

RECURSIVE SplitLinesFrom(_, _, _, _)
SplitLinesFrom(s, n, cur, acc) ==
    IF n > Len(s) THEN (IF cur = <<>> THEN acc ELSE Append(acc, cur))
    ELSE IF s[n] = NL THEN SplitLinesFrom(s, n + 1, <<>>, Append(acc, cur))
    ELSE SplitLinesFrom(s, n + 1, Append(cur, s[n]), acc)

\* str.splitlines(): the lines without their line breaks; a final line break
\* starts no further line.
splitlines(s) == SplitLinesFrom(s, 1, <<>>, <<>>)

RECURSIVE LStrip(_)
LStrip(s) ==
    IF s # <<>> /\ Head(s) \in Whitespace THEN LStrip(Tail(s)) ELSE s

RECURSIVE RStrip(_)
RStrip(s) ==
    IF s # <<>> /\ s[Len(s)] \in Whitespace THEN RStrip(SubSeq(s, 1, Len(s) - 1)) ELSE s

\* str.strip()
strip(s) == RStrip(LStrip(s))

RECURSIVE SplitFrom(_, _, _, _)
SplitFrom(s, n, cur, acc) ==
    IF n > Len(s) THEN (IF cur = <<>> THEN acc ELSE Append(acc, cur))
    ELSE IF s[n] \in Whitespace
         THEN SplitFrom(s, n + 1, <<>>, IF cur = <<>> THEN acc ELSE Append(acc, cur))
    ELSE SplitFrom(s, n + 1, Append(cur, s[n]), acc)

\* str.split() with no separator: the maximal runs of non-whitespace.
split(s) == SplitFrom(s, 1, <<>>, <<>>)

RECURSIVE FirstSegment(_)
\* p.split("/")[0]: the characters before the first "/".
FirstSegment(p) ==
    IF p = <<>> \/ Head(p) = "/" THEN <<>> ELSE <<Head(p)>> \o FirstSegment(Tail(p))

AllDigits(s) == s # <<>> /\ \A n \in 1..Len(s) : s[n] \in Digits

\* Whether int(s) returns (a sign, then digits) or raises ValueError.
IsInt(s) ==
    /\ s # <<>>
    /\ IF Head(s) \in {"+", "-"} THEN AllDigits(Tail(s)) ELSE AllDigits(s)

RECURSIVE NatOf(_)
NatOf(s) ==
    IF s = <<>> THEN 0 ELSE 10 * NatOf(SubSeq(s, 1, Len(s) - 1)) + DigitVal(s[Len(s)])

\* int(s), for IsInt(s).
IntOf(s) ==
    IF Head(s) = "-" THEN 0 - NatOf(Tail(s))
    ELSE IF Head(s) = "+" THEN NatOf(Tail(s))
    ELSE NatOf(s)

RECURSIVE NatStr(_)
NatStr(n) ==
    IF n < 10 THEN <<DigitChars[n + 1]>> ELSE NatStr(n \div 10) \o <<DigitChars[(n % 10) + 1]>>

\* str(n), as an f-string formats an int.
IntStr(n) == IF n < 0 THEN <<"-">> \o NatStr(0 - n) ELSE NatStr(n)

\* ------------------------------------------------- convert_obj_to_mesh
TagV == <<"v">>
TagVT == <<"v", "t">>
TagF == <<"f">>

NoResult ==
    [ok |-> FALSE, err |-> "none", vertices |-> <<>>, indices |-> <<>>,
     tex_coords |-> <<>>, b |-> <<>>]

Raised(e) ==
    [ok |-> FALSE, err |-> e, vertices |-> <<>>, indices |-> <<>>,
     tex_coords |-> <<>>, b |-> <<>>]

\* A variant that keeps every field of the record, not the first three.
VertexLineAllFields(props) == Join(props, <<" ">>) \o <<NL>>

\* case "v": vertices += f"{props[0]} {props[1]} {props[2]}\n"
VertexLine(props) == props[1] \o <<" ">> \o props[2] \o <<" ">> \o props[3] \o <<NL>>

\* case "vt": tex_coords += f"{props[0]} {props[1]}\n"
TexCoordLine(props) == props[1] \o <<" ">> \o props[2] \o <<NL>>

\* A variant that forgets to make the index 0-based.
IndexTextNoDecrement(p) == IntStr(IntOf(FirstSegment(p))) \o <<" ">>

\* f"{int(p.split("/")[0]) - 1} "
IndexText(p) == IntStr(IntOf(FirstSegment(p)) - 1) \o <<" ">>

RECURSIVE FaceText(_)
\* for p in props: indices += ...   (for props whose every first segment is an int)
FaceText(props) ==
    IF props = <<>> THEN <<>> ELSE IndexText(Head(props)) \o FaceText(Tail(props))

\* The f-string of the return value: four headers in a fixed order, each
\* buffer followed by a line break, nothing after ":Color".
Template(vertices, indices, tex_coords) ==
    <<":", "V", "e", "r", "t", "i", "c", "e", "s", NL>> \o vertices \o <<NL>>
    \o <<":", "I", "n", "d", "i", "c", "e", "s", NL>> \o indices \o <<NL>>
    \o <<":", "T", "e", "x", "C", "o", "o", "r", "d", NL>> \o tex_coords \o <<NL>>
    \o <<":", "C", "o", "l", "o", "r", NL>>

\* A variant that matches a tag by its prefix (name.startswith(tag)).
IsCasePrefix(name, tag) == Len(name) >= Len(tag) /\ SubSeq(name, 1, Len(tag)) = tag

\* The tag a line is matched against; "v", "vt" and "f" are the only cases.
IsCase(name, tag) == name = tag

\* The three local buffers, all empty before the loop.
EmptyBuffers == [vertices |-> <<>>, indices |-> <<>>, tex_coords |-> <<>>]

\* vertices += ...
AddVertex(bufs, props) == [bufs EXCEPT !.vertices = @ \o VertexLine(props)]

\* A variant that accumulates texture coordinates in the vertex buffer.
AddTexCoordShared(bufs, props) == [bufs EXCEPT !.vertices = @ \o TexCoordLine(props)]

\* tex_coords += ...
AddTexCoord(bufs, props) == [bufs EXCEPT !.tex_coords = @ \o TexCoordLine(props)]

\* indices += ... for every p in props
AddFace(bufs, props) == [bufs EXCEPT !.indices = @ \o FaceText(props)]

RECURSIVE ConvertLines(_, _, _)
\* The for loop over txt.splitlines(), from line n on, with the three buffers;
\* a missing field or a non-integer index raises and ends the call.
ConvertLines(lines, n, bufs) ==
    IF n > Len(lines)
    THEN [ok |-> TRUE, err |-> "none", vertices |-> bufs.vertices,
          indices |-> bufs.indices, tex_coords |-> bufs.tex_coords,
          b |-> Template(bufs.vertices, bufs.indices, bufs.tex_coords)]
    ELSE LET dat == split(strip(lines[n])) IN
         IF Len(dat) = 0 THEN ConvertLines(lines, n + 1, bufs)
         ELSE LET name == dat[1]
                  props == Tail(dat)
              IN  IF IsCase(name, TagV)
                  THEN IF Len(props) < 3 THEN Raised("IndexError")
                       ELSE ConvertLines(lines, n + 1, AddVertex(bufs, props))
                  ELSE IF IsCase(name, TagVT)
                  THEN IF Len(props) < 2 THEN Raised("IndexError")
                       ELSE ConvertLines(lines, n + 1, AddTexCoord(bufs, props))
                  ELSE IF IsCase(name, TagF)
                  THEN IF \E q \in 1..Len(props) : ~IsInt(FirstSegment(props[q]))
                       THEN Raised("ValueError")
                       ELSE ConvertLines(lines, n + 1, AddFace(bufs, props))
                  ELSE ConvertLines(lines, n + 1, bufs)

convert_obj_to_mesh(t) == ConvertLines(splitlines(t), 1, EmptyBuffers)

\* -------------------------------------- the converter called on its inputs
\* A line of an input: its tokens, the whitespace before, between and after them.
Plain(toks) == [pre |-> <<>>, toks |-> toks, sep |-> <<" ">>, post |-> <<>>]

FieldsShort == << <<"1">>, <<"2">> >>
FieldsSlashed == << <<"1", "/", "2">>, <<"-", "1">>, <<"0", "3">> >>
FieldsWide == << <<"1", ".", "5">>, <<"2">>, <<"3">>, <<"4">> >>
FieldsSigned == << <<"1", "0", "/", "/", "7">>, <<"+", "2">>, <<"0">> >>

\* The lines the inputs are made of: v, vt and f records with too few, exactly
\* enough and too many fields, faces with sub-indices, signs and a non-integer,
\* records of other kinds, blank lines, and a record with irregular spacing.
Lines ==
    { Plain(<<TagV>> \o FieldsShort),
      Plain(<<TagV>> \o FieldsSlashed),
      Plain(<<TagV>> \o FieldsWide),
      Plain(<<TagVT, <<"1">> >>),
      Plain(<<TagVT>> \o FieldsWide),
      Plain(<<TagF>> \o FieldsSlashed),
      Plain(<<TagF>> \o FieldsSigned),
      Plain(<<TagF>> \o FieldsWide),
      Plain(<<TagF>> \o FieldsShort),
      Plain(<< <<"v", "n">> >> \o FieldsShort),
      Plain(<< <<"#", "f">>, TagV >>),
      Plain(<<>>),
      [pre |-> <<" ", "\t">>, toks |-> <<>>, sep |-> <<" ">>, post |-> <<>>],
      [pre |-> <<"\t">>, toks |-> <<TagVT>> \o FieldsSlashed, sep |-> <<" ", " ">>,
       post |-> <<" ", "\t">>] }

RECURSIVE SeqsUpTo(_, _)
SeqsUpTo(S, n) ==
    IF n = 0 THEN {<<>>}
    ELSE LET shorter == SeqsUpTo(S, n - 1)
         IN  shorter \cup {Append(q, x) : q \in {r \in shorter : Len(r) = n - 1}, x \in S}

Docs == SeqsUpTo(Lines, MaxLines)

RenderLine(l) == l.pre \o Join(l.toks, l.sep) \o l.post
Render(d) == Join([n \in 1..Len(d) |-> RenderLine(d[n])], <<NL>>)

\* The kind of a line: the record it is, "blank", or "other".
Kind(l) ==
    IF l.toks = <<>> THEN "blank"
    ELSE IF l.toks[1] = TagV THEN "v"
    ELSE IF l.toks[1] = TagVT THEN "vt"
    ELSE IF l.toks[1] = TagF THEN "f"
    ELSE "other"

Inert(l) == Kind(l) \in {"blank", "other"}

InsertAt(d, pos, l) == SubSeq(d, 1, pos - 1) \o <<l>> \o SubSeq(d, pos, Len(d))
RemoveAt(d, pos) == SubSeq(d, 1, pos - 1) \o SubSeq(d, pos + 1, Len(d))
SwapAt(d, pos) == [d EXCEPT ![pos] = d[pos + 1], ![pos + 1] = d[pos]]

DriverIdle ==
    /\ args = <<>> /\ i = 0 /\ output_flag_enabled = FALSE
    /\ input_args = <<>> /\ output_args = <<>>
    /\ is_single = FALSE /\ is_directory = FALSE
    /\ data = <<>> /\ fs = <<>> /\ pc = "idle" /\ err = "none"
    /\ fs0 = <<>> /\ reads = <<>> /\ writes = <<>>

InitConv ==
    /\ doc \in Docs
    /\ txt = Render(doc)
    /\ result = NoResult
    /\ cpc = "input"
    /\ DriverIdle

\* result = convert_obj_to_mesh(txt): the call returns the text or raises.
Convert ==
    /\ cpc \notin {"returned", "raised"}
    /\ result' = convert_obj_to_mesh(txt)
    /\ cpc' = IF result'.ok THEN "returned" ELSE "raised"
    /\ UNCHANGED <<doc, txt>>
    /\ UNCHANGED drvVars

\* The input is edited: a blank or unknown record is inserted at a position.
InsertLine(pos, l) ==
    /\ Len(doc) < MaxLines
    /\ Inert(l)
    /\ doc' = InsertAt(doc, pos, l)
    /\ txt' = Render(doc')
    /\ result' = NoResult
    /\ cpc' = "inserted"
    /\ UNCHANGED drvVars

\* The input is edited: a blank or unknown record is removed.
RemoveLine(pos) ==
    /\ Inert(doc[pos])
    /\ doc' = RemoveAt(doc, pos)
    /\ txt' = Render(doc')
    /\ result' = NoResult
    /\ cpc' = "removed"
    /\ UNCHANGED drvVars

\* The input is edited: two neighbouring records of different kinds among v, vt
\* and f change places (every other interleaving is a sequence of such steps).
SwapLines(pos) ==
    /\ Kind(doc[pos]) \in {"v", "vt", "f"}
    /\ Kind(doc[pos + 1]) \in {"v", "vt", "f"}
    /\ Kind(doc[pos]) # Kind(doc[pos + 1])
    /\ doc' = SwapAt(doc, pos)
    /\ txt' = Render(doc')
    /\ result' = NoResult
    /\ cpc' = "swapped"
    /\ UNCHANGED drvVars

NextConv ==
    \/ Convert
    \/ \E pos \in 1..(Len(doc) + 1), l \in Lines : InsertLine(pos, l)
    \/ \E pos \in 1..Len(doc) : RemoveLine(pos)
    \/ \E pos \in 1..(Len(doc) - 1) : SwapLines(pos)

SpecConv == InitConv /\ [][NextConv]_vars

\* Three records and what the script returns for them (the Indices buffer ends
\* with a space, not a line break, so one line break separates it from :TexCoord).
ExampleIn ==
    <<"v", " ", "1", ".", "0", " ", "2", ".", "0", " ", "3", ".", "0", NL,
      "v", "t", " ", "0", ".", "5", " ", "0", ".", "5", NL,
      "f", " ", "1", "/", "1", " ", "2", "/", "2", " ", "3", "/", "3">>
ExampleOut ==
    <<":", "V", "e", "r", "t", "i", "c", "e", "s", NL,
      "1", ".", "0", " ", "2", ".", "0", " ", "3", ".", "0", NL, NL,
      ":", "I", "n", "d", "i", "c", "e", "s", NL,
      "0", " ", "1", " ", "2", " ", NL,
      ":", "T", "e", "x", "C", "o", "o", "r", "d", NL,
      "0", ".", "5", " ", "0", ".", "5", NL, NL,
      ":", "C", "o", "l", "o", "r", NL>>
ExampleHolds == convert_obj_to_mesh(ExampleIn).b = ExampleOut

\* ------------------------------------------------- the command-line driver
DashO == <<"-", "o">>
PathA == <<"a", ".", "o">>
PathB == <<"b", ".", "o">>
PathD == <<"d">>
\* The tokens an argument list is made of.
Tokens == {DashO, PathA, PathB, PathD}
ArgLists == SeqsUpTo(Tokens, MaxArgs)

RECURSIVE LastIndexOf(_, _)
\* s.rfind(c), 1-based; 0 when c does not occur.
LastIndexOf(s, c) ==
    IF s = <<>> THEN 0
    ELSE IF s[Len(s)] = c THEN Len(s)
    ELSE LastIndexOf(SubSeq(s, 1, Len(s) - 1), c)

\* Path(p).name: the last component.
PathName(p) == SubSeq(p, LastIndexOf(p, "/") + 1, Len(p))

\* Path(p).stem: the name without its last suffix (a leading or a final dot
\* starts no suffix).
stem(p) ==
    LET name == PathName(p)
        dot == LastIndexOf(name, ".")
    IN  IF 1 < dot /\ dot < Len(name) THEN SubSeq(name, 1, dot - 1) ELSE name

\* os.path.join(a, b)
join(a, b) ==
    IF b # <<>> /\ Head(b) = "/" THEN b
    ELSE IF a = <<>> \/ a[Len(a)] = "/" THEN a \o b
    ELSE a \o <<"/">> \o b

\* os.path.join(output_args[0], Path(input_path).stem + ".mesh")
DirectoryPath(out, input_path) == join(out, stem(input_path) \o <<".", "m", "e", "s", "h">>)

AllPaths == Tokens \cup {DirectoryPath(o, p) : o \in Tokens, p \in Tokens}

Absent == [exists |-> FALSE, text |-> <<>>]
File(t) == [exists |-> TRUE, text |-> t]

TextA ==
    <<"v", " ", "1", " ", "2", " ", "3", NL, "f", " ", "1", " ", "2", " ", "3", NL>>
TextB == <<"v", "t", " ", "1", " ", "2">>
BadFace == <<"f", " ", "x">>
BadVertex == <<"v", " ", "1">>
OldText == <<"o", "l", "d">>

\* The file systems a run starts in: each input there or not, convertible or
\* not, and the third path free or already a file.
InitialFileSystems ==
    { [p \in AllPaths |->
          IF p = PathA THEN a ELSE IF p = PathB THEN b ELSE IF p = PathD THEN d ELSE Absent] :
      a \in {File(TextA), File(BadFace), Absent},
      b \in {File(TextB), File(BadVertex), Absent},
      d \in {Absent, File(OldText)} }

ConverterIdle ==
    /\ doc = <<>> /\ txt = <<>> /\ result = NoResult /\ cpc = "idle"

Init ==
    /\ args \in ArgLists
    /\ i = 0
    /\ output_flag_enabled = FALSE
    /\ input_args = <<>>
    /\ output_args = <<>>
    /\ is_single = FALSE
    /\ is_directory = FALSE
    /\ data = <<>>
    /\ fs \in InitialFileSystems
    /\ fs0 = fs
    /\ pc = "parse"
    /\ err = "none"
    /\ reads = <<>>
    /\ writes = <<>>
    /\ ConverterIdle

\* A variant of the loop body in which every token after the first -o goes to
\* the output list, a further -o included.
ParseStepAllOutputs ==
    /\ pc = "parse"
    /\ i < Len(args)
    /\ LET arg == args[i + 1] IN
       IF output_flag_enabled
       THEN /\ output_args' = Append(output_args, arg)
            /\ i' = i + 1
            /\ UNCHANGED <<input_args, output_flag_enabled, pc, err>>
       ELSE IF arg = DashO
       THEN /\ output_flag_enabled' = TRUE
            /\ i' = i + 1
            /\ UNCHANGED <<input_args, output_args, pc, err>>
       ELSE /\ input_args' = Append(input_args, arg)
            /\ i' = i + 1
            /\ UNCHANGED <<output_args, output_flag_enabled, pc, err>>
    /\ UNCHANGED <<args, is_single, is_directory, data, fs, fs0, reads, writes>>
    /\ UNCHANGED convVars

\* One iteration of the classification loop (i counts from 0, as in the script).
\* A -o read as the current token sets the flag and is stepped over; args[i]
\* then raises IndexError when nothing follows it.
ParseStep ==
    /\ pc = "parse"
    /\ i < Len(args)
    /\ LET arg == args[i + 1] IN
       IF output_flag_enabled \/ arg = DashO
       THEN LET j == IF arg = DashO THEN i + 1 ELSE i IN
            /\ output_flag_enabled' = (output_flag_enabled \/ arg = DashO)
            /\ IF j >= Len(args)
               THEN /\ i' = j
                    /\ pc' = "raised_parse"
                    /\ err' = "IndexError"
                    /\ UNCHANGED output_args
               ELSE /\ output_args' = Append(output_args, args[j + 1])
                    /\ i' = j + 1
                    /\ UNCHANGED <<pc, err>>
            /\ UNCHANGED input_args
       ELSE /\ input_args' = Append(input_args, arg)
            /\ i' = i + 1
            /\ UNCHANGED <<output_args, output_flag_enabled, pc, err>>
    /\ UNCHANGED <<args, is_single, is_directory, data, fs, fs0, reads, writes>>
    /\ UNCHANGED convVars

\* A variant of the check that rejects only too many output paths.
ConfigInvalidTooManyOnly ==
    Len(output_args) # 1 /\ Len(output_args) > Len(input_args)

\* not is_single and len(output_args) != len(input_args)
ConfigInvalid ==
    Len(output_args) # 1 /\ Len(output_args) # Len(input_args)

\* The loop has ended: the mode is resolved, or the configuration error raised.
Resolve ==
    /\ pc = "parse"
    /\ i >= Len(args)
    /\ is_single' = (Len(output_args) = 1)
    /\ IF ConfigInvalid
       THEN /\ pc' = "raised_resolve"
            /\ err' = "Exception"
            /\ UNCHANGED <<is_directory, i>>
       ELSE /\ is_directory' = (is_single' /\ Len(output_args) = 1)
            /\ i' = 0
            /\ pc' = "pair"
            /\ UNCHANGED err
    /\ UNCHANGED <<args, output_flag_enabled, input_args, output_args, data, fs, fs0,
                   reads, writes>>
    /\ UNCHANGED convVars

\* A variant that opens the output file for writing before converting the input.
ReadConvertOpenFirst ==
    /\ pc = "pair"
    /\ i < Len(input_args)
    /\ LET input_path == input_args[i + 1]
           out == IF is_single THEN output_args[1] ELSE output_args[i + 1]
       IN  IF ~fs[input_path].exists
           THEN /\ pc' = "raised_pair"
                /\ err' = "FileNotFoundError"
                /\ fs' = [fs EXCEPT ![out] = File(<<>>)]
                /\ UNCHANGED <<data, reads>>
           ELSE LET cont == fs[input_path].text
                    r == convert_obj_to_mesh(cont)
                IN  /\ reads' = Append(reads, [path |-> input_path, cont |-> cont])
                    /\ fs' = [fs EXCEPT ![out] = File(<<>>)]
                    /\ IF r.ok
                       THEN /\ data' = r.b
                            /\ pc' = "write"
                            /\ UNCHANGED err
                       ELSE /\ pc' = "raised_pair"
                            /\ err' = r.err
                            /\ UNCHANGED data
    /\ UNCHANGED <<args, i, output_flag_enabled, input_args, output_args, is_single,
                   is_directory, fs0, writes>>
    /\ UNCHANGED convVars

\* data = convert_obj_to_mesh_file(input_path): the input is opened and read
\* (FileNotFoundError when it is not there) and converted in memory (IndexError
\* or ValueError on a malformed record); nothing is written.
ReadConvert ==
    /\ pc = "pair"
    /\ i < Len(input_args)
    /\ LET input_path == input_args[i + 1] IN
       IF ~fs[input_path].exists
       THEN /\ pc' = "raised_pair"
            /\ err' = "FileNotFoundError"
            /\ UNCHANGED <<data, reads>>
       ELSE LET cont == fs[input_path].text
                r == convert_obj_to_mesh(cont)
            IN  /\ reads' = Append(reads, [path |-> input_path, cont |-> cont])
                /\ IF r.ok
                   THEN /\ data' = r.b
                        /\ pc' = "write"
                        /\ UNCHANGED err
                   ELSE /\ pc' = "raised_pair"
                        /\ err' = r.err
                        /\ UNCHANGED data
    /\ UNCHANGED <<args, i, output_flag_enabled, input_args, output_args, is_single,
                   is_directory, fs, fs0, writes>>
    /\ UNCHANGED convVars

\* A variant that writes every conversion to the first output path.
OutputTargetFirst ==
    [branch |-> IF is_single THEN "single" ELSE "parallel", path |-> output_args[1]]

\* A variant that tests is_directory before is_single.
OutputTargetDirectoryFirst ==
    IF is_directory
    THEN [branch |-> "directory", path |-> DirectoryPath(output_args[1], input_args[i + 1])]
    ELSE IF is_single THEN [branch |-> "single", path |-> output_args[1]]
    ELSE [branch |-> "parallel", path |-> output_args[i + 1]]

\* The branch of the if / elif / else taken for pair i and the path it opens.
OutputTarget ==
    IF is_single THEN [branch |-> "single", path |-> output_args[1]]
    ELSE IF is_directory
    THEN [branch |-> "directory", path |-> DirectoryPath(output_args[1], input_args[i + 1])]
    ELSE [branch |-> "parallel", path |-> output_args[i + 1]]

\* with open(path, "w") as f: f.write(data), then the next pair.
Write ==
    /\ pc = "write"
    /\ LET target == OutputTarget IN
       /\ fs' = [fs EXCEPT ![target.path] = File(data)]
       /\ writes' = Append(writes, [branch |-> target.branch, path |-> target.path,
                                    cont |-> data])
    /\ i' = i + 1
    /\ pc' = "pair"
    /\ UNCHANGED <<args, output_flag_enabled, input_args, output_args, is_single,
                   is_directory, data, fs0, err, reads>>
    /\ UNCHANGED convVars

\* The for loop has no input left: the script ends.
Finish ==
    /\ pc = "pair"
    /\ i >= Len(input_args)
    /\ pc' = "done"
    /\ UNCHANGED <<args, i, output_flag_enabled, input_args, output_args, is_single,
                   is_directory, data, fs, fs0, err, reads, writes>>
    /\ UNCHANGED convVars

Next == ParseStep \/ Resolve \/ ReadConvert \/ Write \/ Finish

Spec == Init /\ [][Next]_vars

\* --------------------------------------------------- the driver's properties
Classified == pc \notin {"parse", "raised_parse"} \/ (pc = "parse" /\ i >= Len(args))
Inputs == Len(input_args)
Outputs == Len(output_args)

\* The position of the first -o of a list; past its end when there is none.
FirstDashO(a) ==
    IF \E n \in 1..Len(a) : a[n] = DashO
    THEN CHOOSE n \in 1..Len(a) : a[n] = DashO /\ \A m \in 1..(n - 1) : a[m] # DashO
    ELSE Len(a) + 1
BeforeDashO(a) == SubSeq(a, 1, FirstDashO(a) - 1)
AfterDashO(a) == SubSeq(a, FirstDashO(a) + 1, Len(a))
FromDashO(a) == SubSeq(a, FirstDashO(a), Len(a))

RECURSIVE IsFlag(_, _)
\* Whether the token at position n of a list that starts at the first -o is read
\* as the flag: it is -o and does not directly follow a token read as the flag.
IsFlag(rest, n) == rest[n] = DashO /\ (n = 1 \/ ~IsFlag(rest, n - 1))
RECURSIVE NonFlagsFrom(_, _)
NonFlagsFrom(rest, n) ==
    IF n > Len(rest) THEN <<>>
    ELSE (IF IsFlag(rest, n) THEN <<>> ELSE <<rest[n]>>) \o NonFlagsFrom(rest, n + 1)
NonFlags(rest) == NonFlagsFrom(rest, 1)
EndsOnFlag(rest) == rest # <<>> /\ IsFlag(rest, Len(rest))

\* The file system after a sequence of writes.
RECURSIVE ApplyWrites(_, _)
ApplyWrites(f, ws) ==
    IF ws = <<>> THEN f
    ELSE ApplyWrites([f EXCEPT ![Head(ws).path] = File(Head(ws).cont)], Tail(ws))

Converted(k) == convert_obj_to_mesh(reads[k].cont)

\* C1 (as stated): in a run with N inputs and N outputs that ends, every output
\* path i holds the conversion of what input path i held when the run started.
C1_ParallelAsStated ==
    (pc = "done" /\ Outputs = Inputs) =>
        \A k \in 1..Inputs :
            /\ fs0[input_args[k]].exists
            /\ fs[output_args[k]] = File(convert_obj_to_mesh(fs0[input_args[k]].text).b)

\* C1 (amended): the same, for every i whose input path is no earlier pair's
\* output path and whose output path is no later pair's output path.
Unaliased(k) ==
    /\ \A j \in 1..(k - 1) : output_args[j] # input_args[k]
    /\ \A j \in (k + 1)..Outputs : output_args[j] # output_args[k]
C1_Parallel ==
    (pc = "done" /\ Outputs = Inputs) =>
        \A k \in 1..Inputs : Unaliased(k) =>
            /\ fs0[input_args[k]].exists
            /\ fs[output_args[k]] = File(convert_obj_to_mesh(fs0[input_args[k]].text).b)

C1_Witness ==
    /\ pc = "done"
    /\ input_args = <<PathA, PathB>>
    /\ output_args = <<PathD, PathA>>
    /\ fs[PathD] = File(convert_obj_to_mesh(TextA).b)
    /\ fs[PathA] = File(convert_obj_to_mesh(TextB).b)
    /\ fs0[PathD].exists

\* C2: in a run with N > 1 inputs and one output path that ends, there is for
\* every input a file <output path>/<input stem>.mesh.
C2_DirectoryMode ==
    (pc = "done" /\ Inputs > 1 /\ Outputs = 1) =>
        \A k \in 1..Inputs : fs[DirectoryPath(output_args[1], input_args[k])].exists

\* C3: when the number of output paths is neither 1 nor the number of inputs,
\* the run raises the configuration error and goes no further; until then, and
\* when it has raised, no file was read and the file system is as it was.
C3_ConfigError ==
    /\ pc \in {"pair", "write", "done", "raised_pair"} => (Outputs = 1 \/ Outputs = Inputs)
    /\ pc = "raised_resolve" =>
        /\ err = "Exception"
        /\ Outputs # 1 /\ Outputs # Inputs
        /\ ~ENABLED Next
    /\ pc \in {"parse", "raised_parse", "raised_resolve"} =>
        /\ fs = fs0
        /\ reads = <<>>
        /\ writes = <<>>

C3_Witness ==
    /\ pc = "raised_resolve"
    /\ input_args = <<PathA, PathB>>
    /\ output_args = <<>>
    /\ ~output_flag_enabled
    /\ fs0[PathA].exists /\ fs0[PathD].exists

\* C4 (as stated): every argument list is classified, the tokens before the first
\* -o as inputs and all the tokens after it as outputs, in order.
C4_ClassificationAsStated ==
    /\ pc # "raised_parse"
    /\ Classified => /\ input_args = BeforeDashO(args)
                     /\ output_args = AfterDashO(args)

\* C4 (amended): the tokens before the first -o are the inputs, in order; from
\* the first -o on, a -o read as the flag (one that does not directly follow
\* such a flag) goes to neither list and every other token is an output, in
\* order; the loop raises IndexError exactly when the last token is such a flag.
C4_Classification ==
    /\ pc = "raised_parse" => (err = "IndexError" /\ EndsOnFlag(FromDashO(args)))
    /\ Classified => /\ ~EndsOnFlag(FromDashO(args))
                     /\ input_args = BeforeDashO(args)
                     /\ output_args = NonFlags(FromDashO(args))

C4_Witness ==
    /\ Classified
    /\ args = <<PathA, DashO, PathB, DashO, DashO>>
    /\ output_args = <<PathB, DashO>>

\* C9: inputs are read in input order; a pair's output is written only once its
\* conversion is in memory; when reading or converting input k fails, the writes
\* done are those of the pairs before k, the file system is what they left, and
\* the run goes no further.
C9_NoRollback ==
    /\ Len(reads) =< Inputs
    /\ \A k \in 1..Len(reads) : reads[k].path = input_args[k]
    /\ \A k \in 1..Len(writes) :
           /\ Converted(k).ok
           /\ writes[k].cont = Converted(k).b
    /\ fs = ApplyWrites(fs0, writes)
    /\ pc = "write" =>
           /\ Len(reads) = i + 1 /\ Len(writes) = i
           /\ Converted(i + 1).ok /\ data = Converted(i + 1).b
    /\ pc = "pair" => Len(reads) = i /\ Len(writes) = i
    /\ pc = "raised_pair" =>
           /\ i < Inputs
           /\ Len(writes) = i
           /\ IF err = "FileNotFoundError"
              THEN Len(reads) = i /\ ~fs[input_args[i + 1]].exists
              ELSE Len(reads) = i + 1 /\ ~Converted(i + 1).ok /\ err = Converted(i + 1).err
           /\ ~ENABLED Next

C9_Witness ==
    /\ pc = "raised_pair"
    /\ err = "IndexError"
    /\ input_args = <<PathA, PathB>>
    /\ output_args = <<PathA, PathD>>
    /\ fs0[PathD] = File(OldText)
    /\ fs[PathD] = File(OldText)
    /\ fs[PathA] = File(convert_obj_to_mesh(TextA).b)

LinesOfKind(d, k) == SelectSeq(d, LAMBDA l : Kind(l) = k)
Fields(l) == Tail(l.toks)

\* The sub-index a face field starts with, for the fields of Lines that have one.
HasSubIndex(tok) ==
    tok \in { <<"1">>, <<"2">>, <<"3">>, <<"4">>, <<"0">>, <<"1", "/", "2">>, <<"-", "1">>,
              <<"0", "3">>, <<"1", "0", "/", "/", "7">>, <<"+", "2">> }
SubIndexOf(tok) ==
    CASE tok = <<"1">> -> 1
      [] tok = <<"2">> -> 2
      [] tok = <<"3">> -> 3
      [] tok = <<"4">> -> 4
      [] tok = <<"0">> -> 0
      [] tok = <<"1", "/", "2">> -> 1
      [] tok = <<"-", "1">> -> -1
      [] tok = <<"0", "3">> -> 3
      [] tok = <<"1", "0", "/", "/", "7">> -> 10
      [] tok = <<"+", "2">> -> 2

\* How an integer of -2..9 is written.
Decimal(n) ==
    CASE n = -2 -> <<"-", "2">>
      [] n = -1 -> <<"-", "1">>
      [] n \in 0..9 -> <<DigitChars[n + 1]>>

FacesValid(d) ==
    \A n \in 1..Len(d) : Kind(d[n]) = "f" =>
        \A q \in 1..Len(Fields(d[n])) : HasSubIndex(Fields(d[n])[q])
RecordsLongEnough(d) ==
    \A n \in 1..Len(d) : /\ Kind(d[n]) = "v" => Len(Fields(d[n])) >= 3
                         /\ Kind(d[n]) = "vt" => Len(Fields(d[n])) >= 2
AllTriangles(d) == \A n \in 1..Len(d) : Kind(d[n]) = "f" => Len(Fields(d[n])) = 3

ExpIndexRun(fields) ==
    Concat([q \in 1..Len(fields) |-> Decimal(SubIndexOf(fields[q]) - 1) \o <<" ">>])
ExpIndices(d) ==
    LET fl == LinesOfKind(d, "f") IN Concat([n \in 1..Len(fl) |-> ExpIndexRun(Fields(fl[n]))])
ExpVertices(d) ==
    LET vl == LinesOfKind(d, "v")
    IN  Concat([n \in 1..Len(vl) |->
                   Join(SubSeq(Fields(vl[n]), 1, 3), <<" ">>) \o <<NL>>])
ExpTexCoords(d) ==
    LET tl == LinesOfKind(d, "vt")
    IN  Concat([n \in 1..Len(tl) |->
                   Join(SubSeq(Fields(tl[n]), 1, 2), <<" ">>) \o <<NL>>])

\* The sections of an output text, read off its characters.
HdrVertices == <<":", "V", "e", "r", "t", "i", "c", "e", "s", NL>>
HdrIndices == <<":", "I", "n", "d", "i", "c", "e", "s", NL>>
HdrTexCoord == <<":", "T", "e", "x", "C", "o", "o", "r", "d", NL>>
HdrColor == <<":", "C", "o", "l", "o", "r", NL>>

StartsAt(hay, needle, n) ==
    /\ n + Len(needle) - 1 =< Len(hay)
    /\ SubSeq(hay, n, n + Len(needle) - 1) = needle
\* The first position from n on where needle starts in hay; 0 when there is none.
FirstAt(hay, needle, n) ==
    LET hits == {m \in n..Len(hay) : StartsAt(hay, needle, m)}
    IN  IF hits = {} THEN 0 ELSE CHOOSE m \in hits : \A o \in hits : m =< o
\* The body of the section under hdr: what lies between the header line and the
\* line break before the next header.
Section(out, hdr, next) ==
    LET from == FirstAt(out, hdr, 1) + Len(hdr)
        to == FirstAt(out, <<NL>> \o next, from)
    IN  SubSeq(out, from, to - 1)
HasSections(out) ==
    /\ StartsAt(out, HdrVertices, 1)
    /\ FirstAt(out, <<NL>> \o HdrIndices, 1) > 0
    /\ FirstAt(out, <<NL>> \o HdrTexCoord, FirstAt(out, <<NL>> \o HdrIndices, 1)) > 0

\* C5: when the conversion returns (every f field starts with an integer), the
\* Indices section is, for every f line in order and every field in order, the
\* field's first sub-index minus 1 followed by one space; and when every face
\* has three fields the section holds 3 integers per f line.
C5_IndexTransform ==
    cpc = "returned" =>
        /\ FacesValid(doc)
        /\ HasSections(result.b)
        /\ Section(result.b, HdrIndices, HdrTexCoord) = ExpIndices(doc)
        /\ AllTriangles(doc) =>
               Len(split(Section(result.b, HdrIndices, HdrTexCoord)))
                   = 3 * Len(LinesOfKind(doc, "f"))

C5_Witness ==
    /\ cpc = "returned"
    /\ Len(LinesOfKind(doc, "f")) = 2
    /\ AllTriangles(doc)
    /\ \E n \in 1..Len(doc) : Kind(doc[n]) = "f" /\ Fields(doc[n]) = FieldsSigned
    /\ \E n \in 1..Len(doc) : Kind(doc[n]) = "f" /\ Fields(doc[n]) = FieldsSlashed
    /\ Len(split(result.indices)) = 6

\* C6: for an input whose v lines have at least 3 fields and whose vt lines have
\* at least 2, no record is rejected for a missing field, and when the conversion
\* returns the Vertices section has one line per v line and the TexCoord section
\* one line per vt line, in the input's order, each the first three (two) fields
\* verbatim joined by single spaces; further fields are ignored.
C6_PassThrough ==
    /\ (cpc = "raised" /\ RecordsLongEnough(doc)) => result.err # "IndexError"
    /\ cpc = "returned" =>
        /\ RecordsLongEnough(doc)
        /\ HasSections(result.b)
        /\ Section(result.b, HdrVertices, HdrIndices) = ExpVertices(doc)
        /\ Section(result.b, HdrTexCoord, HdrColor) = ExpTexCoords(doc)
        /\ Len(splitlines(Section(result.b, HdrVertices, HdrIndices)))
               = Len(LinesOfKind(doc, "v"))
        /\ Len(splitlines(Section(result.b, HdrTexCoord, HdrColor)))
               = Len(LinesOfKind(doc, "vt"))

C6_Witness ==
    /\ cpc = "returned"
    /\ \E n \in 1..Len(doc) : Kind(doc[n]) = "v" /\ Len(Fields(doc[n])) = 4
    /\ \E n \in 1..Len(doc) : Kind(doc[n]) = "vt" /\ Len(Fields(doc[n])) = 4
    /\ \E n \in 1..Len(doc) : Kind(doc[n]) = "v" /\ Len(Fields(doc[n])) = 3
    /\ Len(splitlines(result.vertices)) = 2

\* C7: inserting or removing, at any position, a blank line or a line whose first
\* token is none of v, vt, f leaves what convert_obj_to_mesh returns or raises
\* unchanged (so the edit itself never raises).
C7_UnknownInert ==
    [][cpc' \in {"inserted", "removed"} =>
           convert_obj_to_mesh(txt') = convert_obj_to_mesh(txt)]_vars

C7_Witness ==
    /\ cpc = "inserted"
    /\ \E n \in 1..Len(doc) : Kind(doc[n]) = "other" /\ Len(doc[n].toks) >= 3
    /\ \E n \in 1..Len(doc) : Kind(doc[n]) = "v"
    /\ \E n \in 1..Len(doc) : Kind(doc[n]) = "f"
    /\ convert_obj_to_mesh(txt).ok

\* C8: two well-formed inputs with the same v lines, the same vt lines and the
\* same f lines, each kind in the same relative order, interleaved differently,
\* convert to the same text; the text has the four headers in the order Vertices,
\* Indices, TexCoord, Color and nothing under Color.
C8_Interleaving ==
    /\ [][(cpc' = "swapped" /\ convert_obj_to_mesh(txt).ok) =>
              convert_obj_to_mesh(txt') = convert_obj_to_mesh(txt)]_vars
    /\ [](cpc = "returned" =>
              result.b = HdrVertices \o result.vertices \o <<NL>>
                         \o HdrIndices \o result.indices \o <<NL>>
                         \o HdrTexCoord \o result.tex_coords \o <<NL>>
                         \o HdrColor)

C8_Witness ==
    /\ cpc = "swapped"
    /\ Len(doc) = 3
    /\ Kind(doc[1]) = "f" /\ Kind(doc[2]) = "vt" /\ Kind(doc[3]) = "v"
    /\ convert_obj_to_mesh(txt).ok
    /\ convert_obj_to_mesh(txt).indices # <<>>

====
